---- MODULE Spec2Model ----
(***************************************************************************)
(* Model of the directed-graph library of src/graph.h (class Graph):       *)
(* node set plus sorted successor / predecessor adjacency vectors,         *)
(* add_node / add_edge, operator==, operator+ (union), transpose,          *)
(* copy_and_clear, the recursive DFS and Kosaraju's scc().                  *)
(* NodeType is instantiated as int, so NodeType() is 0.                     *)
(***************************************************************************)
EXTENDS Integers, Sequences, FiniteSets, TLC

\* Largest node value offered to add_node / add_edge (values 0..MaxNode).
MaxNode == 3
\* Largest number of nodes a graph object is grown to by add_node.
MaxNodes == 3
\* Largest number of edges a graph object is grown to by add_edge / assignment.
MaxEdges == 3
\* The same two bounds for the runs that hold two graph objects.
PairMaxNode == 1
PairMaxEdges == 1

\* NodeType() : the default-constructed node, used as "no parent".
Sentinel == 0

NodeType == 0..MaxNode
PairNodeType == 0..PairMaxNode

\* The two graph objects of operator+ : *this and b.
GraphNames == {"this", "b"}

-----------------------------------------------------------------------------
(* std:: helpers, computed the way the library uses them *)

\* std::less<NodeType> as a comparator over the values in S.
less(S) == [p \in S \X S |-> p[1] < p[2]]

\* std::find(v.begin(), v.end(), x) != v.end()
find(v, x) == \E i \in 1..Len(v) : v[i] = x

\* One insertion step of a sort: x goes before the first y with comparator(x, y).
RECURSIVE insert_sorted(_, _, _)
insert_sorted(x, v, comparator) ==
  IF v = <<>> THEN <<x>>
  ELSE IF comparator[<<x, Head(v)>>] THEN <<x>> \o v
  ELSE <<Head(v)>> \o insert_sorted(x, Tail(v), comparator)

\* std::sort(v.begin(), v.end(), comparator)
RECURSIVE std_sort(_, _)
std_sort(v, comparator) ==
  IF v = <<>> THEN <<>>
  ELSE insert_sorted(v[Len(v)], std_sort(SubSeq(v, 1, Len(v) - 1), comparator), comparator)

\* Iteration order of a std::set / the keys of a std::map : ascending.
RECURSIVE ordered(_)
ordered(S) ==
  IF S = {} THEN <<>>
  ELSE LET m == CHOOSE x \in S : \A y \in S : x <= y
       IN <<m>> \o ordered(S \ {m})

-----------------------------------------------------------------------------
(* Graph values *)

\* Graph(node_printer): no nodes, empty maps.
EmptyGraph == [node_set |-> {}, succ_map |-> [n \in {} |-> <<>>], pred_map |-> [n \in {} |-> <<>>]]

\* map[key] = value (inserting the key when absent).
map_put(m, key, value) == [k \in (DOMAIN m) \cup {key} |-> IF k = key THEN value ELSE m[k]]

\* add_node() without the "already exists" check.
add_node_nocheck(G, node) ==
  [graph |-> [node_set |-> G.node_set \cup {node},
              succ_map |-> map_put(G.succ_map, node, <<>>),
              pred_map |-> map_put(G.pred_map, node, <<>>)],
   threw |-> FALSE]

add_node(G, node) ==
  IF node \in G.node_set
  THEN [graph |-> G, threw |-> TRUE]
  ELSE [graph |-> [node_set |-> G.node_set \cup {node},
                   succ_map |-> map_put(G.succ_map, node, <<>>),
                   pred_map |-> map_put(G.pred_map, node, <<>>)],
        threw |-> FALSE]

add_edge_reject_duplicate(G, from_node, to_node) ==
  IF from_node \notin G.node_set THEN [graph |-> G, threw |-> TRUE, warned |-> FALSE]
  ELSE IF to_node \notin G.node_set THEN [graph |-> G, threw |-> TRUE, warned |-> FALSE]
  ELSE IF find(G.succ_map[from_node], to_node) THEN [graph |-> G, threw |-> TRUE, warned |-> TRUE]
  ELSE LET appended == [G EXCEPT !.succ_map[from_node] = Append(@, to_node),
                                 !.pred_map[to_node] = Append(@, from_node)]
       IN [graph |-> [appended EXCEPT
                        !.succ_map[from_node] = std_sort(@, less(G.node_set)),
                        !.pred_map[to_node] = std_sort(@, less(G.node_set))],
           threw |-> FALSE, warned |-> FALSE]

add_edge_nosort(G, from_node, to_node) ==
  IF from_node \notin G.node_set THEN [graph |-> G, threw |-> TRUE, warned |-> FALSE]
  ELSE IF to_node \notin G.node_set THEN [graph |-> G, threw |-> TRUE, warned |-> FALSE]
  ELSE IF find(G.succ_map[from_node], to_node) THEN [graph |-> G, threw |-> FALSE, warned |-> TRUE]
  ELSE [graph |-> [G EXCEPT !.succ_map[from_node] = Append(@, to_node),
                            !.pred_map[to_node] = Append(@, from_node)],
        threw |-> FALSE, warned |-> FALSE]

add_edge_nodupcheck(G, from_node, to_node) ==
  IF from_node \notin G.node_set THEN [graph |-> G, threw |-> TRUE, warned |-> FALSE]
  ELSE IF to_node \notin G.node_set THEN [graph |-> G, threw |-> TRUE, warned |-> FALSE]
  ELSE LET appended == [G EXCEPT !.succ_map[from_node] = Append(@, to_node),
                                 !.pred_map[to_node] = Append(@, from_node)]
       IN [graph |-> [appended EXCEPT
                        !.succ_map[from_node] = std_sort(@, less(G.node_set)),
                        !.pred_map[to_node] = std_sort(@, less(G.node_set))],
           threw |-> FALSE, warned |-> FALSE]

\* The assert in the "edge already exists" branch restates adjacency symmetry
\* (C3_AdjacencySymmetry) and is not a separate outcome here.
add_edge(G, from_node, to_node) ==
  IF from_node \notin G.node_set THEN [graph |-> G, threw |-> TRUE, warned |-> FALSE]
  ELSE IF to_node \notin G.node_set THEN [graph |-> G, threw |-> TRUE, warned |-> FALSE]
  ELSE IF find(G.succ_map[from_node], to_node) THEN [graph |-> G, threw |-> FALSE, warned |-> TRUE]
  ELSE LET appended == [G EXCEPT !.succ_map[from_node] = Append(@, to_node),
                                 !.pred_map[to_node] = Append(@, from_node)]
       IN [graph |-> [appended EXCEPT
                        !.succ_map[from_node] = std_sort(@, less(G.node_set)),
                        !.pred_map[to_node] = std_sort(@, less(G.node_set))],
           threw |-> FALSE, warned |-> FALSE]

exists_edge(G, a, b) ==
  /\ a \in DOMAIN G.succ_map
  /\ b \in DOMAIN G.pred_map
  /\ find(G.succ_map[a], b)
  /\ find(G.pred_map[b], a)

operator_eq(a, b) ==
  /\ a.node_set = b.node_set
  /\ a.succ_map = b.succ_map
  /\ a.pred_map = b.pred_map

\* copy_and_clear() that copies and clears nothing.
copy_no_clear(G) == G

copy_and_clear(G) ==
  [node_set |-> G.node_set,
   succ_map |-> [n \in DOMAIN G.succ_map |-> IF n \in G.node_set THEN <<>> ELSE G.succ_map[n]],
   pred_map |-> [n \in DOMAIN G.pred_map |-> IF n \in G.node_set THEN <<>> ELSE G.pred_map[n]]]

\* for (node : m) for (neighbor : node.second) : the <<node.first, neighbor>> pairs in order.
RECURSIVE edges_from(_, _)
edges_from(m, keys) ==
  IF keys = <<>> THEN <<>>
  ELSE [i \in 1..Len(m[Head(keys)]) |-> <<Head(keys), m[Head(keys)][i]>>]
       \o edges_from(m, Tail(keys))

edge_vector(G) == edges_from(G.succ_map, ordered(DOMAIN G.succ_map))

\* transpose() that flips succ_map_ only.
RECURSIVE flip_edges_succ_only(_, _)
flip_edges_succ_only(transpose_graph, edges) ==
  IF edges = <<>> THEN transpose_graph
  ELSE LET node == Head(edges)[1]
           neighbor == Head(edges)[2]
       IN flip_edges_succ_only([transpose_graph EXCEPT !.succ_map[neighbor] = Append(@, node)],
                               Tail(edges))

\* transpose() that inserts at the front of the vectors.
RECURSIVE flip_edges_push_front(_, _)
flip_edges_push_front(transpose_graph, edges) ==
  IF edges = <<>> THEN transpose_graph
  ELSE LET node == Head(edges)[1]
           neighbor == Head(edges)[2]
       IN flip_edges_push_front([transpose_graph EXCEPT
                                   !.succ_map[neighbor] = <<node>> \o @,
                                   !.pred_map[node] = <<neighbor>> \o @],
                                Tail(edges))

\* transpose() that skips edges from a node to itself.
RECURSIVE flip_edges_no_loops(_, _)
flip_edges_no_loops(transpose_graph, edges) ==
  IF edges = <<>> THEN transpose_graph
  ELSE LET node == Head(edges)[1]
           neighbor == Head(edges)[2]
       IN flip_edges_no_loops(IF node = neighbor THEN transpose_graph
                              ELSE [transpose_graph EXCEPT
                                      !.succ_map[neighbor] = Append(@, node),
                                      !.pred_map[node] = Append(@, neighbor)],
                              Tail(edges))

\* The "Flip edges" loop of transpose(): emplace_back on both maps, no sort.
RECURSIVE flip_edges(_, _)
flip_edges(transpose_graph, edges) ==
  IF edges = <<>> THEN transpose_graph
  ELSE LET node == Head(edges)[1]
           neighbor == Head(edges)[2]
       IN flip_edges([transpose_graph EXCEPT
                        !.succ_map[neighbor] = Append(@, node),
                        !.pred_map[node] = Append(@, neighbor)],
                     Tail(edges))

transpose(G) == flip_edges(copy_and_clear(G), edge_vector(G))

\* operator+ whose loop runs over *this only.
plus_edges_this_only(this, b) == edge_vector(this)

\* for (graph : {this, &b}) : the edges handed to result.add_edge, in order.
plus_edges(this, b) == edge_vector(this) \o edge_vector(b)

\* The "Start adding edges" loop of operator+.
RECURSIVE add_edges(_, _)
add_edges(r, edges) ==
  IF edges = <<>> \/ r.threw THEN r
  ELSE LET e == add_edge(r.graph, Head(edges)[1], Head(edges)[2])
       IN add_edges([graph |-> e.graph, threw |-> e.threw], Tail(edges))

operator_plus(this, b) ==
  IF this.node_set # b.node_set
  THEN [graph |-> EmptyGraph, threw |-> TRUE]
  ELSE add_edges([graph |-> copy_and_clear(this), threw |-> FALSE], plus_edges(this, b))

-----------------------------------------------------------------------------
(* Depth first search *)

init_dfs_map(G) ==
  [node \in G.node_set |->
     [parent |-> Sentinel, discovery_time |-> -1, finish_time |-> -1, color |-> "WHITE"]]

\* dfs_visit returns (time, ret); dfs_prop_map is updated through the reference,
\* so the updated map is carried in the result as well.
RECURSIVE dfs_visit(_, _, _, _)
RECURSIVE dfs_visit_neighbors(_, _, _, _)

\* The loop over succ_map_.at(node) in dfs_visit, from position i on.
dfs_visit_neighbors(G, node, i, st) ==
  IF i > Len(G.succ_map[node]) THEN st
  ELSE LET neighbor == G.succ_map[node][i]
       IN IF st.dfs_prop_map[neighbor].color = "WHITE"
          THEN LET child == dfs_visit(G, neighbor,
                                      [st.dfs_prop_map EXCEPT ![neighbor].parent = node],
                                      st.time)
               IN dfs_visit_neighbors(G, node, i + 1,
                    [time |-> child.time,
                     ret |-> st.ret \o child.ret,
                     dfs_prop_map |-> child.dfs_prop_map])
          ELSE dfs_visit_neighbors(G, node, i + 1, st)

dfs_visit(G, node, dfs_prop_map, passed_time) ==
  LET time == passed_time + 1
      entered == [dfs_prop_map EXCEPT ![node].discovery_time = time, ![node].color = "GRAY"]
      st == dfs_visit_neighbors(G, node, 1,
              [time |-> time, ret |-> <<node>>, dfs_prop_map |-> entered])
  IN [time |-> st.time + 1,
      ret |-> st.ret,
      dfs_prop_map |-> [st.dfs_prop_map EXCEPT ![node].color = "BLACK",
                                               ![node].finish_time = st.time + 1]]

\* The outer loop of dfs over node_vector, from position i on.
RECURSIVE dfs_loop(_, _, _, _, _)
dfs_loop(G, node_vector, i, dfs_prop_map, passed_time) ==
  IF i > Len(node_vector) THEN dfs_prop_map
  ELSE IF dfs_prop_map[node_vector[i]].color = "WHITE"
       THEN LET r == dfs_visit(G, node_vector[i], dfs_prop_map, passed_time)
            IN dfs_loop(G, node_vector, i + 1, r.dfs_prop_map, r.time)
       ELSE dfs_loop(G, node_vector, i + 1, dfs_prop_map, passed_time)

dfs(G, comparator) ==
  dfs_loop(G, std_sort(ordered(G.node_set), comparator), 1, init_dfs_map(G), 0)

\* for (pair : dfs_map) ret.add_node(pair.first)
RECURSIVE forest_add_nodes(_, _)
forest_add_nodes(ret, keys) ==
  IF keys = <<>> THEN ret
  ELSE forest_add_nodes(add_node(ret, Head(keys)).graph, Tail(keys))

\* The forest edges added from the node to its parent.
RECURSIVE forest_add_edges_to_parent(_, _, _)
forest_add_edges_to_parent(ret, dfs_map, keys) ==
  IF keys = <<>> THEN ret
  ELSE LET node == Head(keys)
       IN forest_add_edges_to_parent(IF dfs_map[node].parent # Sentinel
                                     THEN add_edge(ret, node, dfs_map[node].parent).graph
                                     ELSE ret,
                                     dfs_map, Tail(keys))

\* for (pair : dfs_map) if (pair.second.parent != NodeType()) ret.add_edge(parent, pair.first)
RECURSIVE forest_add_edges(_, _, _)
forest_add_edges(ret, dfs_map, keys) ==
  IF keys = <<>> THEN ret
  ELSE LET node == Head(keys)
       IN forest_add_edges(IF dfs_map[node].parent # Sentinel
                           THEN add_edge(ret, dfs_map[node].parent, node).graph
                           ELSE ret,
                           dfs_map, Tail(keys))

dfs_forest(G, comparator) ==
  LET dfs_map == dfs(G, comparator)
      keys == ordered(DOMAIN dfs_map)
  IN forest_add_edges(forest_add_nodes(EmptyGraph, keys), dfs_map, keys)

-----------------------------------------------------------------------------
(* Strongly connected components *)

\* Comparator that orders by increasing first-pass finish time.
increasing_finish_time(dfs_map) ==
  [p \in (DOMAIN dfs_map) \X (DOMAIN dfs_map) |->
     dfs_map[p[1]].finish_time < dfs_map[p[2]].finish_time]

\* The lambda handed to dfs_forest in scc(): decreasing first-pass finish time.
decreasing_finish_time(dfs_map) ==
  [p \in (DOMAIN dfs_map) \X (DOMAIN dfs_map) |->
     dfs_map[p[1]].finish_time > dfs_map[p[2]].finish_time]

\* rev_dfs_forest computed on the graph itself instead of its transpose.
rev_dfs_forest_no_transpose(G) ==
  dfs_forest(G, decreasing_finish_time(dfs(G, less(G.node_set))))

\* rev_dfs_forest of scc().
rev_dfs_forest(G) ==
  dfs_forest(transpose(G), decreasing_finish_time(dfs(G, less(G.node_set))))

\* The erase loop started one past the first visited node.
erase_visited_skip_first(node_vector, visited_nodes) ==
  SelectSeq(node_vector, LAMBDA n : ~find(Tail(visited_nodes), n))

\* The erase(remove(...)) loop: node_vector without the visited nodes.
erase_visited(node_vector, visited_nodes) ==
  SelectSeq(node_vector, LAMBDA n : ~find(visited_nodes, n))

\* The while loop of scc().
RECURSIVE scc_loop(_, _, _, _)
scc_loop(G, forest, node_vector, sccs) ==
  IF node_vector = <<>> THEN sccs
  ELSE LET front_node == Head(node_vector)
           visited_nodes == dfs_visit(forest, front_node, init_dfs_map(G), 0).ret
       IN scc_loop(G, forest, erase_visited(node_vector, visited_nodes),
                   Append(sccs, visited_nodes))

scc(G) ==
  LET forest == rev_dfs_forest(G)
  IN scc_loop(G, forest, ordered(forest.node_set), <<>>)

-----------------------------------------------------------------------------
(* The state machine: a caller holding the graph objects *this and b *)

VARIABLES
  graph,    \* graph[x] : the Graph object named x (node_set_, succ_map_, pred_map_)
  call,     \* the last member function called, and on which objects
  threw,    \* whether that call threw std::logic_error
  warned,   \* whether that call wrote the "edge already exists" warning
  result,   \* the Graph returned by that call (transpose, copy_and_clear, operator+)
  sccs      \* the vector of components returned by that call (scc)

\* The position inside a running scc() on *this, and its locals.
VARIABLES
  pc,               \* "idle", or the part of scc() that is running
  stack,            \* the active dfs_visit calls, outermost first: node, loop position, time, ret
  dfs_prop_map,     \* the DfsPropMap the running dfs / dfs_visit writes to
  passed_time,      \* passed_time of the running dfs
  node_vector,      \* node_vector of the running dfs, then of the extraction loop
  dfs_map,          \* dfs_map of scc(): the map returned by the first dfs()
  graph_transpose,  \* graph_transpose of scc()
  rev_forest,       \* rev_dfs_forest of scc()
  roots             \* the nodes the outer loop of the running dfs called dfs_visit on, in order

trav == <<pc, stack, dfs_prop_map, passed_time, node_vector, dfs_map, graph_transpose,
          rev_forest, roots>>

vars == <<graph, call, threw, warned, result, sccs, pc, stack, dfs_prop_map, passed_time,
          node_vector, dfs_map, graph_transpose, rev_forest, roots>>

num_edges(G) == Len(edge_vector(G))

Init ==
  /\ graph = [x \in GraphNames |-> EmptyGraph]
  /\ call = [op |-> "Graph", this |-> "this", b |-> "this"]
  /\ threw = FALSE
  /\ warned = FALSE
  /\ result = EmptyGraph
  /\ sccs = <<>>
  /\ pc = "idle"
  /\ stack = <<>>
  /\ dfs_prop_map = init_dfs_map(EmptyGraph)
  /\ passed_time = 0
  /\ node_vector = <<>>
  /\ dfs_map = init_dfs_map(EmptyGraph)
  /\ graph_transpose = EmptyGraph
  /\ rev_forest = EmptyGraph
  /\ roots = <<>>

\* graph[x].add_node(node); a graph is grown to at most cap nodes.
AddNode(x, node, cap) ==
  LET r == add_node(graph[x], node)
  IN /\ (r.threw \/ Cardinality(graph[x].node_set) < cap)
     /\ graph' = [graph EXCEPT ![x] = r.graph]
     /\ call' = [op |-> "add_node", this |-> x, b |-> x]
     /\ threw' = r.threw
     /\ warned' = FALSE
     /\ result' = EmptyGraph
     /\ sccs' = <<>>
     /\ UNCHANGED trav

\* graph[x].add_edge(from_node, to_node); a graph is grown to at most cap edges.
AddEdge(x, from_node, to_node, cap) ==
  LET r == add_edge(graph[x], from_node, to_node)
  IN /\ (r.threw \/ r.warned \/ num_edges(graph[x]) < cap)
     /\ graph' = [graph EXCEPT ![x] = r.graph]
     /\ call' = [op |-> "add_edge", this |-> x, b |-> x]
     /\ threw' = r.threw
     /\ warned' = r.warned
     /\ result' = EmptyGraph
     /\ sccs' = <<>>
     /\ UNCHANGED trav

\* result = graph[x].transpose()
Transpose(x) ==
  /\ result' = transpose(graph[x])
  /\ call' = [op |-> "transpose", this |-> x, b |-> x]
  /\ threw' = FALSE
  /\ warned' = FALSE
  /\ sccs' = <<>>
  /\ UNCHANGED <<graph, trav>>

\* result = graph[x].copy_and_clear()
CopyAndClear(x) ==
  /\ result' = copy_and_clear(graph[x])
  /\ call' = [op |-> "copy_and_clear", this |-> x, b |-> x]
  /\ threw' = FALSE
  /\ warned' = FALSE
  /\ sccs' = <<>>
  /\ UNCHANGED <<graph, trav>>

\* result = graph[x] + graph[y]
Plus(x, y) ==
  LET r == operator_plus(graph[x], graph[y])
  IN /\ result' = r.graph
     /\ call' = [op |-> "operator+", this |-> x, b |-> y]
     /\ threw' = r.threw
     /\ warned' = FALSE
     /\ sccs' = <<>>
     /\ UNCHANGED <<graph, trav>>

\* graph[x] = result : the caller keeps the graph a transform returned.
Assign(x, cap) ==
  /\ call.op \in {"transpose", "copy_and_clear", "operator+"}
  /\ ~threw
  /\ num_edges(result) <= cap
  /\ graph' = [graph EXCEPT ![x] = result]
  /\ call' = [op |-> "operator=", this |-> x, b |-> x]
  /\ threw' = FALSE
  /\ warned' = FALSE
  /\ result' = EmptyGraph
  /\ sccs' = <<>>
  /\ UNCHANGED trav

\* sccs = graph[x].scc()
Scc(x) ==
  /\ sccs' = scc(graph[x])
  /\ call' = [op |-> "scc", this |-> x, b |-> x]
  /\ threw' = FALSE
  /\ warned' = FALSE
  /\ result' = EmptyGraph
  /\ UNCHANGED <<graph, trav>>

\* One graph object, all member functions.
Next ==
  \/ \E node \in NodeType : AddNode("this", node, MaxNodes)
  \/ \E from_node \in NodeType, to_node \in NodeType : AddEdge("this", from_node, to_node, MaxEdges)
  \/ Transpose("this")
  \/ CopyAndClear("this")
  \/ Plus("this", "this")
  \/ Assign("this", MaxEdges)
  \/ Scc("this")

Spec == Init /\ [][Next]_vars

\* Two graph objects, the store and the transforms (no traversal).
NextPair ==
  \/ \E x \in GraphNames, node \in PairNodeType : AddNode(x, node, PairMaxNode + 1)
  \/ \E x \in GraphNames, from_node \in PairNodeType, to_node \in PairNodeType :
       AddEdge(x, from_node, to_node, PairMaxEdges)
  \/ \E x \in GraphNames : Transpose(x)
  \/ \E x \in GraphNames : CopyAndClear(x)
  \/ \E x \in GraphNames, y \in GraphNames : Plus(x, y)
  \/ \E x \in GraphNames : Assign(x, PairMaxEdges)

SpecPair == Init /\ [][NextPair]_vars

-----------------------------------------------------------------------------
(* scc() on *this, one step per loop iteration, call and return *)

\* The graph whose succ_map_ the running dfs_visit calls read.
visited_graph ==
  IF pc = "dfs1" THEN graph["this"]
  ELSE IF pc = "dfs2" THEN graph_transpose
  ELSE rev_forest

top == stack[Len(stack)]

\* dfs_visit entry that leaves the colour alone.
mark_entered_no_gray(map, node, passed) ==
  [map EXCEPT ![node].discovery_time = passed + 1]

\* dfs_visit entry: the writes to dfs_prop_map.
mark_entered(map, node, passed) ==
  [map EXCEPT ![node].discovery_time = passed + 1, ![node].color = "GRAY"]

\* dfs_visit entry: the locals ret {node}, time = passed_time + 1, loop at the start.
visit_enter(node, passed) ==
  [node |-> node, i |-> 1, time |-> passed + 1, ret |-> <<node>>]

\* dfs_visit exit: the writes to dfs_prop_map.
mark_finished(map, frame) ==
  [map EXCEPT ![frame.node].color = "BLACK", ![frame.node].finish_time = frame.time + 1]

\* The caller drops the time the recursive call returned.
tie_child_ignore_time(frame, child_time, child_vec) ==
  [frame EXCEPT !.ret = @ \o child_vec, !.i = @ + 1]

\* The caller inserts child_vec at ret.begin().
tie_child_insert_front(frame, child_time, child_vec) ==
  [frame EXCEPT !.time = child_time, !.ret = child_vec \o @, !.i = @ + 1]

\* std::tie(time, child_vec) = dfs_visit(...); ret.insert(ret.end(), child_vec...)
tie_child(frame, child_time, child_vec) ==
  [frame EXCEPT !.time = child_time, !.ret = @ \o child_vec, !.i = @ + 1]

\* The loop of the top dfs_visit call has run through all successors.
loop_done == top.i > Len(visited_graph.succ_map[top.node])

\* scc() is called: dfs() starts on *this with std::less.
SccBegin ==
  /\ pc = "idle"
  /\ pc' = "dfs1"
  /\ dfs_prop_map' = init_dfs_map(graph["this"])
  /\ node_vector' = std_sort(ordered(graph["this"].node_set), less(graph["this"].node_set))
  /\ passed_time' = 0
  /\ stack' = <<>>
  /\ roots' = <<>>
  /\ call' = [op |-> "scc", this |-> "this", b |-> "this"]
  /\ threw' = FALSE
  /\ warned' = FALSE
  /\ result' = EmptyGraph
  /\ sccs' = <<>>
  /\ UNCHANGED <<graph, dfs_map, graph_transpose, rev_forest>>

\* One iteration of the outer loop of dfs(): dfs_visit is called on a white node.
DfsOuter ==
  /\ pc \in {"dfs1", "dfs2"}
  /\ stack = <<>>
  /\ node_vector # <<>>
  /\ LET node == Head(node_vector)
     IN /\ node_vector' = Tail(node_vector)
        /\ IF dfs_prop_map[node].color = "WHITE"
           THEN /\ stack' = <<visit_enter(node, passed_time)>>
                /\ dfs_prop_map' = mark_entered(dfs_prop_map, node, passed_time)
                /\ roots' = Append(roots, node)
           ELSE UNCHANGED <<stack, dfs_prop_map, roots>>
  /\ UNCHANGED <<graph, call, threw, warned, result, sccs, pc, passed_time, dfs_map,
                 graph_transpose, rev_forest>>

\* One iteration of the loop of dfs_visit: recurse into a white neighbor, else go on.
VisitNeighbor ==
  /\ pc \in {"dfs1", "dfs2", "extract"}
  /\ stack # <<>>
  /\ ~loop_done
  /\ LET neighbor == visited_graph.succ_map[top.node][top.i]
     IN IF dfs_prop_map[neighbor].color = "WHITE"
        THEN /\ stack' = Append(stack, visit_enter(neighbor, top.time))
             /\ dfs_prop_map' = mark_entered([dfs_prop_map EXCEPT ![neighbor].parent = top.node],
                                             neighbor, top.time)
        ELSE /\ stack' = [stack EXCEPT ![Len(stack)].i = @ + 1]
             /\ UNCHANGED dfs_prop_map
  /\ UNCHANGED <<graph, call, threw, warned, result, sccs, pc, passed_time, node_vector,
                 dfs_map, graph_transpose, rev_forest, roots>>

\* A recursive dfs_visit call returns to the dfs_visit call that made it.
VisitReturn ==
  /\ pc \in {"dfs1", "dfs2", "extract"}
  /\ Len(stack) >= 2
  /\ loop_done
  /\ dfs_prop_map' = mark_finished(dfs_prop_map, top)
  /\ stack' = [SubSeq(stack, 1, Len(stack) - 1) EXCEPT
                 ![Len(stack) - 1] = tie_child(@, top.time + 1, top.ret)]
  /\ UNCHANGED <<graph, call, threw, warned, result, sccs, pc, passed_time, node_vector,
                 dfs_map, graph_transpose, rev_forest, roots>>

\* The dfs_visit call made by the outer loop of dfs() returns: passed_time is tied.
DfsReturn ==
  /\ pc \in {"dfs1", "dfs2"}
  /\ Len(stack) = 1
  /\ loop_done
  /\ dfs_prop_map' = mark_finished(dfs_prop_map, top)
  /\ passed_time' = top.time + 1
  /\ stack' = <<>>
  /\ UNCHANGED <<graph, call, threw, warned, result, sccs, pc, node_vector, dfs_map,
                 graph_transpose, rev_forest, roots>>

\* The first dfs() returns; transpose(); dfs_forest starts dfs() on the transpose
\* with the decreasing finish time comparator.
Dfs1Done ==
  /\ pc = "dfs1"
  /\ stack = <<>>
  /\ node_vector = <<>>
  /\ pc' = "dfs2"
  /\ dfs_map' = dfs_prop_map
  /\ graph_transpose' = transpose(graph["this"])
  /\ dfs_prop_map' = init_dfs_map(graph_transpose')
  /\ node_vector' = std_sort(ordered(graph_transpose'.node_set), decreasing_finish_time(dfs_map'))
  /\ passed_time' = 0
  /\ roots' = <<>>
  /\ UNCHANGED <<graph, call, threw, warned, result, sccs, stack, rev_forest>>

\* The dfs() inside dfs_forest returns; dfs_forest builds the forest and returns it.
Dfs2Done ==
  /\ pc = "dfs2"
  /\ stack = <<>>
  /\ node_vector = <<>>
  /\ pc' = "forest"
  /\ LET keys == ordered(DOMAIN dfs_prop_map)
     IN rev_forest' = forest_add_edges(forest_add_nodes(EmptyGraph, keys), dfs_prop_map, keys)
  /\ UNCHANGED <<graph, call, threw, warned, result, sccs, stack, dfs_prop_map, passed_time,
                 node_vector, dfs_map, graph_transpose, roots>>

\* node_vector is filled from rev_dfs_forest.node_set(); sccs starts empty.
ForestNodes ==
  /\ pc = "forest"
  /\ pc' = "extract"
  /\ node_vector' = ordered(rev_forest.node_set)
  /\ sccs' = <<>>
  /\ UNCHANGED <<graph, call, threw, warned, result, stack, dfs_prop_map, passed_time,
                 dfs_map, graph_transpose, rev_forest, roots>>

\* An iteration of the while loop starts: dfs_visit on the front node, fresh map, time 0.
ExtractBegin ==
  /\ pc = "extract"
  /\ stack = <<>>
  /\ node_vector # <<>>
  /\ LET front_node == Head(node_vector)
     IN /\ stack' = <<visit_enter(front_node, 0)>>
        /\ dfs_prop_map' = mark_entered(init_dfs_map(graph["this"]), front_node, 0)
  /\ UNCHANGED <<graph, call, threw, warned, result, sccs, pc, passed_time, node_vector,
                 dfs_map, graph_transpose, rev_forest, roots>>

\* That dfs_visit returns: the visited nodes are erased from node_vector and
\* appended to sccs as one component.
ExtractReturn ==
  /\ pc = "extract"
  /\ Len(stack) = 1
  /\ loop_done
  /\ dfs_prop_map' = mark_finished(dfs_prop_map, top)
  /\ node_vector' = erase_visited(node_vector, top.ret)
  /\ sccs' = Append(sccs, top.ret)
  /\ stack' = <<>>
  /\ UNCHANGED <<graph, call, threw, warned, result, pc, passed_time, dfs_map,
                 graph_transpose, rev_forest, roots>>

\* node_vector is empty: scc() returns sccs, its locals are gone.
SccReturn ==
  /\ pc = "extract"
  /\ stack = <<>>
  /\ node_vector = <<>>
  /\ pc' = "idle"
  /\ dfs_prop_map' = init_dfs_map(EmptyGraph)
  /\ dfs_map' = init_dfs_map(EmptyGraph)
  /\ graph_transpose' = EmptyGraph
  /\ rev_forest' = EmptyGraph
  /\ roots' = <<>>
  /\ passed_time' = 0
  /\ UNCHANGED <<graph, call, threw, warned, result, sccs, stack, node_vector>>

\* The steps of a running scc().
SccStep ==
  \/ DfsOuter
  \/ VisitNeighbor
  \/ VisitReturn
  \/ DfsReturn
  \/ Dfs1Done
  \/ Dfs2Done
  \/ ForestNodes
  \/ ExtractBegin
  \/ ExtractReturn
  \/ SccReturn

\* One graph object: it is built while no call is running, and scc() runs step by step.
NextScc ==
  \/ \E node \in NodeType : pc = "idle" /\ AddNode("this", node, MaxNodes)
  \/ \E from_node \in NodeType, to_node \in NodeType :
       pc = "idle" /\ AddEdge("this", from_node, to_node, MaxEdges)
  \/ SccBegin
  \/ SccStep

SpecScc == Init /\ [][NextScc]_vars

-----------------------------------------------------------------------------
(* Vocabulary of the properties *)

\* The graph values the caller holds: the two objects and the last returned graph.
GraphValues == {graph[x] : x \in GraphNames} \cup {result}

\* The directed edges of G, read off the successor map.
EdgeSet(G) == {e \in G.node_set \X G.node_set : find(G.succ_map[e[1]], e[2])}

\* The nodes reachable from u along directed edges of G (u itself included).
RECURSIVE ReachableFrom(_, _)
ReachableFrom(G, S) ==
  LET T == S \cup {e[2] : e \in {d \in EdgeSet(G) : d[1] \in S}}
  IN IF T = S THEN S ELSE ReachableFrom(G, T)

MutuallyReachable(G, u, v) ==
  /\ v \in ReachableFrom(G, {u})
  /\ u \in ReachableFrom(G, {v})

\* The places <<i, j>> of a vector of components that hold node n.
PlacesOf(components, n) ==
  {p \in UNION {{<<i, j>> : j \in DOMAIN components[i]} : i \in DOMAIN components} :
     components[p[1]][p[2]] = n}

SameComponent(components, u, v) ==
  \E i \in DOMAIN components : find(components[i], u) /\ find(components[i], v)

StrictlyAscending(v) == \A i \in 1..Len(v) - 1 : v[i] < v[i + 1]

\* The graph object the last call was made on, and its second operand.
ThisGraph == graph[call.this]
OtherGraph == graph[call.b]

-----------------------------------------------------------------------------
(* Properties *)

\* C1: after scc() on a graph none of whose nodes is the sentinel, the returned
\* components are a partition of the node set: every entry is a node, and every
\* node occurs at exactly one place of exactly one component.
C1_SccIsPartition ==
  (call.op = "scc" /\ Sentinel \notin ThisGraph.node_set) =>
    /\ \A i \in DOMAIN sccs : \A j \in DOMAIN sccs[i] : sccs[i][j] \in ThisGraph.node_set
    /\ \A n \in ThisGraph.node_set : Cardinality(PlacesOf(sccs, n)) = 1

\* C2 as stated, for every graph: two nodes share a returned component exactly
\* when each is reachable from the other.
C2_SameComponentIffMutuallyReachable_AnyGraph ==
  call.op = "scc" =>
    \A u \in ThisGraph.node_set, v \in ThisGraph.node_set :
      SameComponent(sccs, u, v) <=> MutuallyReachable(ThisGraph, u, v)

\* C2 amended: on a graph none of whose nodes equals the sentinel NodeType(),
\* two nodes share a returned component exactly when each is reachable from the other.
C2_SameComponentIffMutuallyReachable ==
  (call.op = "scc" /\ Sentinel \notin ThisGraph.node_set) =>
    \A u \in ThisGraph.node_set, v \in ThisGraph.node_set :
      SameComponent(sccs, u, v) <=> MutuallyReachable(ThisGraph, u, v)

\* C2 witness: scc() has run on a directed 3-cycle without the sentinel and
\* returned a component with all three nodes.
C2_Witness ==
  /\ call.op = "scc"
  /\ Sentinel \notin ThisGraph.node_set
  /\ \E u \in ThisGraph.node_set, v \in ThisGraph.node_set, w \in ThisGraph.node_set :
       /\ EdgeSet(ThisGraph) = {<<u, v>>, <<v, w>>, <<w, u>>}
       /\ Cardinality({u, v, w}) = 3
       /\ \E i \in DOMAIN sccs : {sccs[i][j] : j \in DOMAIN sccs[i]} = {u, v, w}

\* C3: in every graph value (the objects and every returned graph), b is in
\* successors[a] exactly when a is in predecessors[b].
C3_AdjacencySymmetry ==
  \A G \in GraphValues :
    /\ DOMAIN G.succ_map = G.node_set
    /\ DOMAIN G.pred_map = G.node_set
    /\ \A a \in G.node_set, b \in G.node_set :
         find(G.succ_map[a], b) <=> find(G.pred_map[b], a)

\* C3 witness: transpose() has returned a graph with an edge whose reverse is absent.
C3_Witness ==
  /\ call.op = "transpose"
  /\ \E a \in result.node_set, b \in result.node_set :
       /\ a # b
       /\ find(result.succ_map[a], b)
       /\ ~find(result.succ_map[b], a)

\* C4: every successor vector and every predecessor vector of every graph value
\* is strictly ascending (sorted, no entry twice).
C4_AdjacencyStrictlySorted ==
  \A G \in GraphValues :
    \A n \in G.node_set :
      /\ StrictlyAscending(G.succ_map[n])
      /\ StrictlyAscending(G.pred_map[n])

\* C4 witness: transpose() has returned a graph with a successor vector and a
\* predecessor vector of two or more entries.
C4_Witness ==
  /\ call.op = "transpose"
  /\ \E n \in result.node_set : Len(result.succ_map[n]) >= 2
  /\ \E n \in result.node_set : Len(result.pred_map[n]) >= 2

\* C5: the transpose of the graph transpose() returned compares equal
\* (operator==) to the graph transpose() was called on.
C5_DoubleTranspose ==
  call.op = "transpose" => operator_eq(transpose(result), ThisGraph)

\* C5 witness: transpose() has run on a graph with three edges that is not its
\* own transpose.
C5_Witness ==
  /\ call.op = "transpose"
  /\ num_edges(ThisGraph) >= 3
  /\ ~operator_eq(result, ThisGraph)

\* C6: transpose() returns a graph over the same nodes that has the edge v->u
\* exactly when the source has the edge u->v.
C6_TransposeReversesEdges ==
  call.op = "transpose" =>
    /\ result.node_set = ThisGraph.node_set
    /\ \A u \in ThisGraph.node_set, v \in ThisGraph.node_set :
         exists_edge(result, v, u) <=> exists_edge(ThisGraph, u, v)

\* C6 witness: transpose() has run on a graph with a self-loop and an edge
\* between two different nodes.
C6_Witness ==
  /\ call.op = "transpose"
  /\ \E u \in ThisGraph.node_set : exists_edge(ThisGraph, u, u) /\ exists_edge(result, u, u)
  /\ \E u \in ThisGraph.node_set, v \in ThisGraph.node_set :
       u # v /\ exists_edge(ThisGraph, u, v) /\ exists_edge(result, v, u)

\* C7: operator+ on graphs with equal node sets does not throw and returns a
\* graph over that node set whose edges are the union of both operands' edges;
\* on graphs with different node sets it throws.
C7_UnionOfEdges ==
  call.op = "operator+" =>
    IF ThisGraph.node_set = OtherGraph.node_set
    THEN /\ ~threw
         /\ result.node_set = ThisGraph.node_set
         /\ EdgeSet(result) = EdgeSet(ThisGraph) \cup EdgeSet(OtherGraph)
    ELSE threw

\* C7 witness: operator+ has returned the union of two graphs each of which has
\* an edge the other lacks.
C7_Witness ==
  /\ call.op = "operator+"
  /\ ~threw
  /\ EdgeSet(ThisGraph) \ EdgeSet(OtherGraph) # {}
  /\ EdgeSet(OtherGraph) \ EdgeSet(ThisGraph) # {}

\* C8: the graph returned by A + B compares equal (operator==) to B + A.
C8_UnionCommutes ==
  (call.op = "operator+" /\ ~threw) =>
    /\ ~operator_plus(OtherGraph, ThisGraph).threw
    /\ operator_eq(result, operator_plus(OtherGraph, ThisGraph).graph)

\* C8 witness: A + B has run where B's edge sorts before A's edge in the same
\* successor vector, so the two orders of insertion differ.
C8_Witness ==
  /\ call.op = "operator+"
  /\ ~threw
  /\ \E n \in ThisGraph.node_set :
       /\ Len(ThisGraph.succ_map[n]) >= 1
       /\ Len(OtherGraph.succ_map[n]) >= 1
       /\ OtherGraph.succ_map[n][1] < ThisGraph.succ_map[n][1]

\* C9: G + G does not throw and compares equal (operator==) to G.
C9_UnionIdempotent ==
  (call.op = "operator+" /\ call.this = call.b) =>
    /\ ~threw
    /\ operator_eq(result, ThisGraph)

\* C9 witness: G + G has run on a graph with at least two edges.
C9_Witness ==
  /\ call.op = "operator+"
  /\ call.this = call.b
  /\ num_edges(ThisGraph) >= 2

\* C10: add_edge(a, b) on existing nodes with the edge a->b present does not
\* throw and leaves node set, successors and predecessors of the graph as they were.
C10_AddEdgeIdempotent ==
  [][\A a \in graph["this"].node_set, b \in graph["this"].node_set :
       (/\ call'.op = "add_edge"
        /\ exists_edge(graph["this"], a, b)
        /\ AddEdge("this", a, b, MaxEdges)) =>
         (~threw' /\ graph' = graph)]_vars

\* C10 witness: add_edge has taken its "edge already exists" branch.
C10_Witness ==
  /\ call.op = "add_edge"
  /\ warned
  /\ ~threw

\* The graph obtained from Graph() by add_node on each entry of node_order and
\* then add_edge on each entry of edge_order.
RECURSIVE BuildEdges(_, _)
BuildEdges(G, edge_order) ==
  IF edge_order = <<>> THEN G
  ELSE BuildEdges(add_edge(G, Head(edge_order)[1], Head(edge_order)[2]).graph, Tail(edge_order))

RECURSIVE BuildNodes(_, _)
BuildNodes(G, node_order) ==
  IF node_order = <<>> THEN G
  ELSE BuildNodes(add_node(G, Head(node_order)).graph, Tail(node_order))

Built(node_order, edge_order) == BuildEdges(BuildNodes(EmptyGraph, node_order), edge_order)

Reversed(v) == [i \in 1..Len(v) |-> v[Len(v) + 1 - i]]

\* The edges of G in ascending (from, to) order, whatever the order inside G's vectors.
RECURSIVE EdgesAscending(_)
EdgesAscending(E) ==
  IF E = {} THEN <<>>
  ELSE LET m == CHOOSE e \in E : \A d \in E :
                  e[1] < d[1] \/ (e[1] = d[1] /\ e[2] <= d[2])
       IN <<m>> \o EdgesAscending(E \ {m})

\* C11: a graph reached by any order of add_node / add_edge calls (failing and
\* repeated calls included) compares equal (operator==) to the graph built from
\* the same nodes and edges in ascending order, and to the one built in
\* descending order with every edge added twice; so any two graphs with the same
\* nodes and edges compare equal.
C11_EqualityIgnoresInsertionOrder ==
  LET G == graph["this"]
      nodes_up == ordered(G.node_set)
      edges_up == EdgesAscending(EdgeSet(G))
  IN /\ operator_eq(G, Built(nodes_up, edges_up))
     /\ operator_eq(G, Built(Reversed(nodes_up), Reversed(edges_up) \o Reversed(edges_up)))

\* C11 witness: add_edge has just inserted an edge into a graph that now has a
\* successor vector and a predecessor vector of two or more entries.
C11_Witness ==
  /\ call.op = "add_edge"
  /\ ~threw
  /\ ~warned
  /\ \E n \in graph["this"].node_set : Len(graph["this"].succ_map[n]) >= 2
  /\ \E n \in graph["this"].node_set : Len(graph["this"].pred_map[n]) >= 2

\* C12: add_node(n) with n already in the node set, and add_edge(from, to) with
\* from or to not in the node set, throw and leave every graph object as it was.
C12_FailedMutationChangesNothing ==
  [][/\ \A x \in GraphNames : \A n \in graph[x].node_set :
          (call'.op = "add_node" /\ AddNode(x, n, PairMaxNode + 1)) =>
            (threw' /\ graph' = graph)
     /\ \A x \in GraphNames : \A a \in PairNodeType, b \in PairNodeType :
          (/\ call'.op = "add_edge"
           /\ (a \notin graph[x].node_set \/ b \notin graph[x].node_set)
           /\ AddEdge(x, a, b, PairMaxEdges)) =>
            (threw' /\ graph' = graph)]_vars

\* C12 witness: add_node has thrown on a graph that holds an edge.
C12_Witness ==
  /\ call.op = "add_node"
  /\ threw
  /\ num_edges(graph[call.this]) >= 1

\* G has no directed cycle: no node is reachable from one of its own successors.
Acyclic(G) ==
  \A n \in G.node_set :
    n \notin ReachableFrom(G, {e[2] : e \in {d \in EdgeSet(G) : d[1] = n}})

\* C13: scc() on a graph without directed cycle returns one component per node,
\* each of exactly one node, and no node in two of them.
C13_DagGivesSingletons ==
  (call.op = "scc" /\ Acyclic(ThisGraph)) =>
    /\ Len(sccs) = Cardinality(ThisGraph.node_set)
    /\ \A i \in DOMAIN sccs : Len(sccs[i]) = 1
    /\ {sccs[i][1] : i \in DOMAIN sccs} = ThisGraph.node_set

\* C13 witness: scc() has run on the chain u -> v -> w of three nodes.
C13_Witness ==
  /\ call.op = "scc"
  /\ Acyclic(ThisGraph)
  /\ Len(sccs) = 3
  /\ \E u \in ThisGraph.node_set, v \in ThisGraph.node_set, w \in ThisGraph.node_set :
       /\ Cardinality({u, v, w}) = 3
       /\ EdgeSet(ThisGraph) = {<<u, v>>, <<v, w>>}

\* The sum of the entries of a vector of numbers.
\* Steps the running dfs_visit calls can still take on the graph they read: a
\* white node can be entered, have every successor looked at and be finished; a
\* node on the stack has its remaining successors and its finish left.
VisitWork ==
  LET G == visited_graph
      white == {n \in DOMAIN dfs_prop_map : dfs_prop_map[n].color = "WHITE"}
  IN Cardinality(UNION {{n} \X (1..(2 + Len(G.succ_map[n]))) : n \in white})
     + Cardinality(UNION {{k} \X (1..(2 + Len(G.succ_map[stack[k].node]) - stack[k].i)) :
                          k \in DOMAIN stack})

\* The most VisitWork can be on a graph with the nodes and at most the edges of *this.
VisitWorkMax ==
  2 * Cardinality(graph["this"].node_set) + Cardinality(EdgeSet(graph["this"]))

ExtractWorkMax == Cardinality(graph["this"].node_set) * (VisitWorkMax + 2) + VisitWorkMax + 2

\* A natural number that bounds the steps a running scc() has left.
SccWork ==
  IF pc = "idle" THEN 0
  ELSE IF pc = "extract"
       THEN Len(node_vector) * (VisitWorkMax + 2)
            + (IF stack = <<>> THEN VisitWorkMax + 1 ELSE VisitWork) + 1
  ELSE IF pc = "forest" THEN ExtractWorkMax + 1
  ELSE IF pc = "dfs2" THEN ExtractWorkMax + 2 + Len(node_vector) + VisitWork
  ELSE ExtractWorkMax + 3 + Cardinality(graph["this"].node_set) + VisitWorkMax
       + Len(node_vector) + VisitWork

\* A dfs() has come to its return: the next step is Dfs1Done or Dfs2Done, which
\* have no other guard.
dfs_returns == pc \in {"dfs1", "dfs2"} /\ stack = <<>> /\ node_vector = <<>>

\* C14: a running scc() terminates without an error: while it runs it can always
\* take a step, and every step lowers the natural number SccWork; every
\* iteration of the extraction loop makes node_vector shorter and removes its
\* front node; on a graph with no node the returned vector is empty.
C14_SccTerminates ==
  /\ []((pc # "idle") => (SccWork > 0 /\ ~threw))
  /\ []((pc # "idle") =>
         \/ dfs_returns
         \/ ENABLED (DfsOuter \/ VisitNeighbor \/ VisitReturn \/ DfsReturn \/ ForestNodes
                      \/ ExtractBegin \/ ExtractReturn \/ SccReturn))
  /\ [][(pc # "idle") => (SccWork' < SccWork /\ SccWork' >= 0)]_vars
  /\ [][(pc = "extract" /\ stack # <<>> /\ stack' = <<>>) =>
          /\ Len(node_vector') < Len(node_vector)
          /\ ~find(node_vector', Head(node_vector))]_vars
  /\ []((pc = "idle" /\ call.op = "scc" /\ graph["this"].node_set = {}) => sccs = <<>>)

\* C14 witness: scc() has returned on a graph with a self-loop after two or
\* more iterations of the extraction loop.
C14_Witness ==
  /\ pc = "idle"
  /\ call.op = "scc"
  /\ ~threw
  /\ Len(sccs) >= 2
  /\ \E n \in graph["this"].node_set : exists_edge(graph["this"], n, n)

\* The ancestors of n in the forest F (n itself included), along pred_map.
Ancestors(F, n) ==
  ReachableFrom([F EXCEPT !.succ_map = F.pred_map, !.pred_map = F.succ_map], {n})

\* The nodes of the tree of the forest F that holds n: all descendants of its root.
TreeOf(F, n) == ReachableFrom(F, Ancestors(F, n))

\* The dfs_visit call made by the extraction loop is at its return statement.
extract_visit_returns == pc = "extract" /\ Len(stack) = 1 /\ loop_done

\* C15: on a graph none of whose nodes is the sentinel, the dfs_visit that the
\* extraction loop of scc() runs from the front node of node_vector returns
\* exactly the nodes of the tree of rev_dfs_forest that holds the front node.
C15_ExtractVisitsWholeTree ==
  (extract_visit_returns /\ Sentinel \notin graph["this"].node_set) =>
    {top.ret[i] : i \in DOMAIN top.ret} = TreeOf(rev_forest, Head(node_vector))

\* C16: on a graph none of whose nodes is the sentinel, when dfs_forest has
\* returned rev_dfs_forest inside scc(), two nodes are in the same tree of that
\* forest exactly when each is reachable from the other in the original graph:
\* the node set of every tree is one strongly connected component.
C16_ForestTreesAreComponents ==
  (pc = "forest" /\ Sentinel \notin graph["this"].node_set) =>
    /\ rev_forest.node_set = graph["this"].node_set
    /\ \A u \in graph["this"].node_set, v \in graph["this"].node_set :
         v \in TreeOf(rev_forest, u) <=> MutuallyReachable(graph["this"], u, v)

\* C16 witness: the forest of a sentinel-free graph has a tree of two or more
\* nodes and a node outside that tree that has an edge into it or out of it.
C16_Witness ==
  /\ pc = "forest"
  /\ Sentinel \notin graph["this"].node_set
  /\ \E u \in graph["this"].node_set, v \in graph["this"].node_set, w \in graph["this"].node_set :
       /\ u # v
       /\ v \in TreeOf(rev_forest, u)
       /\ w \notin TreeOf(rev_forest, u)
       /\ exists_edge(graph["this"], w, u) \/ exists_edge(graph["this"], u, w)

\* A dfs() call of scc() is running (the first pass, or the one inside dfs_forest).
in_dfs == pc \in {"dfs1", "dfs2"}

\* The nodes of the active dfs_visit calls, outermost first.
recursion_path == [k \in DOMAIN stack |-> stack[k].node]

\* C17: during dfs a colour only moves white -> gray -> black; dfs_visit is
\* called only on a white node; the gray nodes are at every step exactly the
\* nodes on the active recursion path; when dfs returns every node is black.
C17_ColoursOnlyAdvance ==
  /\ [][(in_dfs /\ pc' = pc) =>
          /\ \A n \in DOMAIN dfs_prop_map :
               \/ dfs_prop_map'[n].color = dfs_prop_map[n].color
               \/ dfs_prop_map[n].color = "WHITE" /\ dfs_prop_map'[n].color = "GRAY"
               \/ dfs_prop_map[n].color = "GRAY" /\ dfs_prop_map'[n].color = "BLACK"
          /\ (Len(stack') > Len(stack)) =>
               dfs_prop_map[stack'[Len(stack')].node].color = "WHITE"]_vars
  /\ [](in_dfs =>
         /\ {n \in DOMAIN dfs_prop_map : dfs_prop_map[n].color = "GRAY"}
              = {recursion_path[k] : k \in DOMAIN stack}
         /\ \A j \in DOMAIN stack, k \in DOMAIN stack :
              recursion_path[j] = recursion_path[k] => j = k)
  /\ [](dfs_returns => \A n \in DOMAIN dfs_prop_map : dfs_prop_map[n].color = "BLACK")

\* C17 witness: a dfs is two calls deep on a graph with a self-loop, with a
\* black node beside the two gray ones.
C17_Witness ==
  /\ in_dfs
  /\ Len(stack) >= 2
  /\ \E n \in DOMAIN dfs_prop_map : dfs_prop_map[n].color = "BLACK"
  /\ \E n \in graph["this"].node_set : exists_edge(graph["this"], n, n)

\* The discovery and finish times stamped in a DfsProps map.
stamps(map) ==
  {map[n].discovery_time : n \in DOMAIN map} \cup {map[n].finish_time : n \in DOMAIN map}

\* C18: when dfs returns on a graph with n nodes, the n discovery times and n
\* finish times are 2n different values, exactly the numbers 1..2n; every node
\* was discovered before it finished, and no time is still -1.
C18_TimesAreOneClock ==
  dfs_returns =>
    LET n == Cardinality(visited_graph.node_set)
    IN /\ DOMAIN dfs_prop_map = visited_graph.node_set
       /\ stamps(dfs_prop_map) = 1..(2 * n)
       /\ \A u \in DOMAIN dfs_prop_map, v \in DOMAIN dfs_prop_map :
            /\ dfs_prop_map[u].discovery_time # dfs_prop_map[v].finish_time
            /\ u # v => /\ dfs_prop_map[u].discovery_time # dfs_prop_map[v].discovery_time
                        /\ dfs_prop_map[u].finish_time # dfs_prop_map[v].finish_time
       /\ \A u \in DOMAIN dfs_prop_map :
            /\ dfs_prop_map[u].discovery_time < dfs_prop_map[u].finish_time
            /\ dfs_prop_map[u].discovery_time # -1
            /\ dfs_prop_map[u].finish_time # -1

\* C18 witness: a dfs has returned after two or more visits from its outer
\* loop, one of which recursed.
C18_Witness ==
  /\ dfs_returns
  /\ Len(roots) >= 2
  /\ Len(roots) < Cardinality(visited_graph.node_set)

\* The innermost dfs_visit call is at its return statement.
visit_returns == stack # <<>> /\ loop_done

\* The nodes of S in the order dfs_prop_map says they were discovered.
RECURSIVE by_discovery(_)
by_discovery(S) ==
  IF S = {} THEN <<>>
  ELSE LET m == CHOOSE x \in S : \A y \in S :
                  dfs_prop_map[x].discovery_time <= dfs_prop_map[y].discovery_time
       IN <<m>> \o by_discovery(S \ {m})

\* The nodes discovered and finished within the visit of c, in discovery order.
visit_of(c) ==
  by_discovery({n \in DOMAIN dfs_prop_map :
                  /\ dfs_prop_map[c].discovery_time <= dfs_prop_map[n].discovery_time
                  /\ dfs_prop_map[n].finish_time # -1
                  /\ dfs_prop_map[n].finish_time <= dfs_prop_map[c].finish_time})

RECURSIVE concat(_)
concat(vv) == IF vv = <<>> THEN <<>> ELSE Head(vv) \o concat(Tail(vv))

\* The successors of the returning call's node that were white when its loop
\* reached them, in successor order: the call recursed into exactly these.
white_when_reached ==
  SelectSeq(visited_graph.succ_map[top.node],
            LAMBDA c : /\ dfs_prop_map[c].parent = top.node
                       /\ dfs_prop_map[c].discovery_time > dfs_prop_map[top.node].discovery_time)

\* C19: the vector a dfs_visit call returns starts with the call's node and
\* goes on with the vectors of its recursive calls, one per successor that was
\* white when reached, in successor order; no node is in it twice; its nodes
\* are exactly the nodes that went from white to black during the call.
C19_VisitReturnsPreOrder ==
  visit_returns =>
    LET discovered == {n \in DOMAIN dfs_prop_map :
                         dfs_prop_map[n].discovery_time >= dfs_prop_map[top.node].discovery_time}
    IN /\ Head(top.ret) = top.node
       /\ top.ret = <<top.node>>
                     \o concat([k \in DOMAIN white_when_reached |-> visit_of(white_when_reached[k])])
       /\ \A j \in DOMAIN top.ret, k \in DOMAIN top.ret : top.ret[j] = top.ret[k] => j = k
       /\ {top.ret[k] : k \in DOMAIN top.ret} = discovered
       /\ \A n \in discovered \ {top.node} : dfs_prop_map[n].color = "BLACK"
       /\ dfs_prop_map[top.node].color = "GRAY"

\* C19 witness: a call returns that recursed into two successors and passed a
\* successor that was not white.
C19_Witness ==
  /\ visit_returns
  /\ Len(white_when_reached) >= 2
  /\ Len(white_when_reached) < Len(visited_graph.succ_map[top.node])

\* C20: for a source graph none of whose nodes is the sentinel, the graph that
\* dfs_forest(comparator) returns has all nodes of the source and the edge
\* p -> n exactly when dfs recorded p as the parent of n; every node has at
\* most one predecessor, every forest edge is an edge of the source, the forest
\* has no cycle, and the nodes without predecessor are exactly the roots the
\* outer loop started, which it started in comparator order.
C20_ForestIsParentRelation ==
  (pc = "forest" /\ Sentinel \notin graph_transpose.node_set) =>
    LET comparator == decreasing_finish_time(dfs_map)
    IN /\ rev_forest.node_set = graph_transpose.node_set
       /\ \A p \in rev_forest.node_set, n \in rev_forest.node_set :
            exists_edge(rev_forest, p, n) <=> dfs_prop_map[n].parent = p
       /\ \A n \in rev_forest.node_set : Len(rev_forest.pred_map[n]) <= 1
       /\ EdgeSet(rev_forest) \subseteq EdgeSet(graph_transpose)
       /\ Acyclic(rev_forest)
       /\ {n \in rev_forest.node_set : rev_forest.pred_map[n] = <<>>}
            = {roots[k] : k \in DOMAIN roots}
       /\ \A j \in DOMAIN roots, k \in DOMAIN roots :
            j < k => comparator[<<roots[j], roots[k]>>]

\* C20 witness: dfs_forest returns a forest with two roots, one of them with a
\* child, built from a source that has an edge the forest does not have.
C20_Witness ==
  /\ pc = "forest"
  /\ Sentinel \notin graph_transpose.node_set
  /\ Len(roots) >= 2
  /\ EdgeSet(rev_forest) # {}
  /\ EdgeSet(rev_forest) # EdgeSet(graph_transpose)

====
